---- MODULE Spec2Model ----
(***************************************************************************)
(* A model of utils/update_diary_template.py (Tex2TexConverter and main):  *)
(* the text functions are computed character by character on strings, the *)
(* folder conversion is a state machine over the files of one run.         *)
(***************************************************************************)
EXTENDS Integers, Sequences, FiniteSets, TLC

(***************************************************************************)
(* Python string primitives.  Indices are Python's (0-based, end           *)
(* exclusive); a string is a sequence of one-character strings.            *)
(***************************************************************************)

Min(a, b) == IF a < b THEN a ELSE b

Max(a, b) == IF a > b THEN a ELSE b

\* the least and the greatest element of a non-empty set of integers
Least(S) == CHOOSE x \in S : \A y \in S : x <= y

Greatest(S) == CHOOSE x \in S : \A y \in S : x >= y

\* s[i], for 0 <= i < len(s)
CharAt(s, i) == SubSeq(s, i + 1, i + 1)

\* a slice bound as Python normalises it: negative counts from the end, then clamped
SliceBound(k, n) == IF k < 0 THEN Max(k + n, 0) ELSE Min(k, n)

\* s[a:b]
PySlice(s, a, b) ==
    LET lo == SliceBound(a, Len(s))
        hi == SliceBound(b, Len(s))
    IN  IF hi <= lo THEN "" ELSE SubSeq(s, lo + 1, hi)

\* s[a:]
PyFrom(s, a) == PySlice(s, a, Len(s))

\* s[i:].startswith(p), for i >= 0
StartsAt(s, p, i) == i + Len(p) <= Len(s) /\ SubSeq(s, i + 1, i + Len(p)) = p

\* s.find(p): the lowest index where p occurs, -1 when it does not
Find(s, p) ==
    LET hits == {i \in 0..(Len(s) - Len(p)) : StartsAt(s, p, i)}
    IN  IF hits = {} THEN -1 ELSE Least(hits)

\* p in s
Contains(s, p) == Find(s, p) # -1

\* the number of (possibly overlapping) places where p occurs in s
Occurrences(s, p) == Cardinality({i \in 0..(Len(s) - Len(p)) : StartsAt(s, p, i)})

Whitespace == {" ", "\n", "\t"}

Digits == {"0", "1", "2", "3", "4", "5", "6", "7", "8", "9"}

IsSpaceAt(s, i) == i < Len(s) /\ CharAt(s, i) \in Whitespace

IsDigitAt(s, i) == i < Len(s) /\ CharAt(s, i) \in Digits

\* the first index >= i that holds no whitespace (regex \s*, greedy)
SkipSpace(s, i) ==
    IF i >= Len(s) THEN i ELSE Least({j \in i..Len(s) : ~IsSpaceAt(s, j)})

\* the last index + 1 of s[:n] with trailing whitespace dropped
TrimEnd(s, n) == Greatest({j \in 0..n : j = 0 \/ ~IsSpaceAt(s, j - 1)})

\* s.strip()
Strip(s) ==
    LET lo == SkipSpace(s, 0)
    IN  IF lo >= Len(s) THEN "" ELSE SubSeq(s, lo + 1, TrimEnd(s, Len(s)))

\* s.replace(old, new): the leftmost occurrences, not overlapping; the inserted
\* text is not scanned again (old is not empty)
RECURSIVE Replace(_, _, _)
Replace(s, old, new) ==
    LET i == Find(s, old)
    IN  IF i = -1 THEN s
        ELSE PySlice(s, 0, i) \o new \o Replace(PyFrom(s, i + Len(old)), old, new)

\* the first index >= i that holds one of the characters cs, Len(s) if none
SkipTo(s, cs, i) ==
    IF i >= Len(s) THEN i ELSE Least({j \in i..Len(s) : j = Len(s) \/ CharAt(s, j) \in cs})

\* the first index >= i that holds "}" (the end of a greedy [^}]* run), Len(s) if none
SkipToBrace(s, i) == SkipTo(s, {"}"}, i)

DigitValue(c) ==
    CASE c = "0" -> 0 [] c = "1" -> 1 [] c = "2" -> 2 [] c = "3" -> 3 [] c = "4" -> 4
      [] c = "5" -> 5 [] c = "6" -> 6 [] c = "7" -> 7 [] c = "8" -> 8 [] c = "9" -> 9

DigitChar(d) == CharAt("0123456789", d)

\* int(s) for a string of one or more digits
RECURSIVE ParseInt(_)
ParseInt(s) ==
    IF Len(s) = 0 THEN 0
    ELSE 10 * ParseInt(SubSeq(s, 1, Len(s) - 1)) + DigitValue(CharAt(s, Len(s) - 1))

\* str(n) for n >= 0
RECURSIVE IntToStr(_)
IntToStr(n) == IF n < 10 THEN DigitChar(n) ELSE IntToStr(n \div 10) \o DigitChar(n % 10)

None == [some |-> FALSE, val |-> ""]

Some(v) == [some |-> TRUE, val |-> v]

(***************************************************************************)
(* extract_content                                                         *)
(***************************************************************************)

BeginDocument == "\\begin{document}"

EndDocument == "\\end{document}"

\* re.match of \\href\{run:[^}]+\}\{[^}]+\}\s* at index i: the end of the match, -1 if none
MatchTitleLink(s, i) ==
    IF ~StartsAt(s, "\\href{run:", i) THEN -1
    ELSE LET a == i + Len("\\href{run:")
             b == SkipToBrace(s, a)
         IN  IF b = a \/ ~StartsAt(s, "}{", b) THEN -1
             ELSE LET c == b + 2
                      d == SkipToBrace(s, c)
                  IN  IF d = c \/ d >= Len(s) THEN -1 ELSE SkipSpace(s, d + 1)

\* re.match of \\section\{\s*\}\s* at index i: the end of the match, -1 if none
MatchEmptySection(s, i) ==
    IF ~StartsAt(s, "\\section{", i) THEN -1
    ELSE LET a == SkipSpace(s, i + Len("\\section{"))
         IN  IF ~StartsAt(s, "}", a) THEN -1 ELSE SkipSpace(s, a + 1)

\* re.sub(r"\\href\{run:[^}]+\}\{[^}]+\}\s*", "", s): the leftmost match is
\* dropped and the scan goes on behind it
RECURSIVE RemoveTitleLinks(_)
RemoveTitleLinks(s) ==
    LET hits == {i \in 0..(Len(s) - 1) : MatchTitleLink(s, i) # -1}
    IN  IF hits = {} THEN s
        ELSE PySlice(s, 0, Least(hits))
                 \o RemoveTitleLinks(PyFrom(s, MatchTitleLink(s, Least(hits))))

\* re.sub(r"\\section\{\s*\}\s*", "", s)
RECURSIVE RemoveEmptySections(_)
RemoveEmptySections(s) ==
    LET hits == {i \in 0..(Len(s) - 1) : MatchEmptySection(s, i) # -1}
    IN  IF hits = {} THEN s
        ELSE PySlice(s, 0, Least(hits))
                 \o RemoveEmptySections(PyFrom(s, MatchEmptySection(s, Least(hits))))

\* a slip: the slice starts at the marker, not behind it
DocBodyWithMarker(content, doc_start, doc_end) ==
    Strip(PySlice(content, doc_start, doc_end))

\* content[doc_start + len("\begin{document}") : doc_end].strip()
DocBody(content, doc_start, doc_end) ==
    Strip(PySlice(content, doc_start + Len(BeginDocument), doc_end))

\* a slip: None only when both markers are absent
extract_content_both_absent(content) ==
    LET doc_start == Find(content, BeginDocument)
        doc_end == Find(content, EndDocument)
    IN  IF doc_start = -1 /\ doc_end = -1 THEN None
        ELSE Some(RemoveEmptySections(RemoveTitleLinks(DocBody(content, doc_start, doc_end))))

\* extract_content on the text read from the file: None, or the cleaned body
extract_content(content) ==
    LET doc_start == Find(content, BeginDocument)
        doc_end == Find(content, EndDocument)
    IN  IF doc_start = -1 \/ doc_end = -1 THEN None
        ELSE Some(RemoveEmptySections(RemoveTitleLinks(DocBody(content, doc_start, doc_end))))

(***************************************************************************)
(* get_date_info                                                           *)
(***************************************************************************)

\* tex_file.stem of a name that ends in ".tex"
Stem(name) == PySlice(name, 0, Len(name) - Len(".tex"))

\* the number of digits \d{1,2} takes at index i when what follows must be "-":
\* two when it can, else one, 0 when neither matches
MonthDigits(s, i) ==
    IF IsDigitAt(s, i) /\ IsDigitAt(s, i + 1) /\ StartsAt(s, "-", i + 2) /\ IsDigitAt(s, i + 3)
    THEN 2
    ELSE IF IsDigitAt(s, i) /\ StartsAt(s, "-", i + 1) /\ IsDigitAt(s, i + 2) THEN 1
    ELSE 0

\* re.match of (\d{4})-(\d{1,2})-(\d{1,2}) at index i
DateMatchesAt(s, i) ==
    /\ \A k \in 0..3 : IsDigitAt(s, i + k)
    /\ StartsAt(s, "-", i + 4)
    /\ MonthDigits(s, i + 5) > 0

\* a slip: the day is one digit
DateGroupsShortDay(s, i) ==
    LET m == MonthDigits(s, i + 5)
        d0 == i + 5 + m + 1
    IN  [year |-> PySlice(s, i, i + 4),
         month |-> PySlice(s, i + 5, i + 5 + m),
         day |-> PySlice(s, d0, d0 + 1)]

\* the groups of the match at index i: the day is greedy, two digits when two follow
DateGroups(s, i) ==
    LET m == MonthDigits(s, i + 5)
        d0 == i + 5 + m + 1
        d == IF IsDigitAt(s, d0 + 1) THEN 2 ELSE 1
    IN  [year |-> PySlice(s, i, i + 4),
         month |-> PySlice(s, i + 5, i + 5 + m),
         day |-> PySlice(s, d0, d0 + d)]

\* re.search: the match at the lowest index, None when there is none
DateSearch(s) ==
    LET hits == {i \in 0..Len(s) : DateMatchesAt(s, i)}
    IN  IF hits = {} THEN None
        ELSE Some(DateGroups(s, Least(hits)))

month_names ==
    <<"January", "February", "March", "April", "May", "June", "July", "August",
      "September", "October", "November", "December">>

\* list[k] as Python indexes a list: a negative k counts from the end, and an
\* index outside the list raises IndexError (None here)
PyIndex(list, k) ==
    LET j == IF k < 0 THEN k + Len(list) ELSE k
    IN  IF j < 0 \/ j >= Len(list) THEN None ELSE Some(list[j + 1])

\* the dictionary get_date_info returns; raised when the month-name lookup raises
DateInfo(year, month_num, day_num) ==
    LET name == PyIndex(month_names, month_num - 1)
    IN  [raised |-> ~name.some,
         year |-> IF name.some THEN year ELSE "",
         month |-> IF name.some THEN IntToStr(month_num) ELSE "",
         day |-> IF name.some THEN IntToStr(day_num) ELSE "",
         month_name |-> name.val,
         day_number |-> IF name.some THEN IntToStr(day_num) ELSE ""]

\* get_date_info of the file named name, with datetime.now() = now
get_date_info(name, now) ==
    LET date_match == DateSearch(Stem(name))
    IN  IF date_match.some
        THEN DateInfo(date_match.val.year, ParseInt(date_match.val.month),
                      ParseInt(date_match.val.day))
        ELSE DateInfo(IntToStr(now.year), now.month, now.day)

(***************************************************************************)
(* inject_personal_info                                                    *)
(***************************************************************************)

\* self.config.get(key, default)
ConfigGet(config, key, default) == IF key \in DOMAIN config THEN config[key] ELSE default

\* the replacements dictionary, in its insertion order
Replacements(date_info, config, name) ==
    <<[placeholder |-> "<YEAR>", value |-> date_info.year],
      [placeholder |-> "<MONTH>", value |-> date_info.month],
      [placeholder |-> "<DAY>", value |-> date_info.day],
      [placeholder |-> "<MONTH_NAME>", value |-> date_info.month_name],
      [placeholder |-> "<DAY_NUMBER>", value |-> date_info.day_number],
      [placeholder |-> "<AUTHOR>", value |-> ConfigGet(config, "author", "Unknown Author")],
      [placeholder |-> "<INSTITUTION>",
       value |-> ConfigGet(config, "institution", "Unknown Institution")],
      [placeholder |-> "<DIARY_TITLE>",
       value |-> ConfigGet(config, "diary_title", "Research Diary")],
      [placeholder |-> "<FILENAME>", value |-> name]>>

\* for placeholder, value in replacements.items(): result = result.replace(...)
RECURSIVE ReplaceAll(_, _, _)
ReplaceAll(result, replacements, k) ==
    IF k > Len(replacements) THEN result
    ELSE ReplaceAll(Replace(result, replacements[k].placeholder, replacements[k].value),
                    replacements, k + 1)

\* a slip: only the tag-comment line is filled
ReplaceTagsCommentOnly(result, folder_name) ==
    Replace(result, "%<TAGs>: <TAGS>", "%<TAGs>: " \o folder_name)

\* the tag step: <TAGS> when the result holds it, else the tag-comment line
ReplaceTags(result, folder_name) ==
    IF Contains(result, "<TAGS>") THEN Replace(result, "<TAGS>", folder_name)
    ELSE Replace(result, "%<TAGs>: <TAGS>", "%<TAGs>: " \o folder_name)

\* inject_personal_info: None when get_date_info raises, else the filled template
inject_personal_info(template, name, folder_name, config, now) ==
    LET date_info == get_date_info(name, now)
    IN  IF date_info.raised THEN None
        ELSE Some(ReplaceTags(ReplaceAll(template, Replacements(date_info, config, name), 1),
                              folder_name))

(***************************************************************************)
(* convert_file: the insertion of the body into the composed template      *)
(***************************************************************************)

\* template[:at] + content + "\n\n" + template[at:]
SpliceAt(template, content, at) ==
    PySlice(template, 0, at) \o content \o "\n\n" \o PyFrom(template, at)

\* new_content of convert_file
InsertContent(template, content) ==
    IF Contains(template, "\\bibliographystyle")
    THEN SpliceAt(template, content, Find(template, "\\bibliographystyle"))
    ELSE SpliceAt(template, content, Find(template, EndDocument))

(***************************************************************************)
(* _find_asset_references, _resolve_asset_path                             *)
(***************************************************************************)

NoMatch == [end |-> -1, group |-> ""]

\* \\includegraphics(?:\[[^\]]*\])?\{([^}]+)\} at index i
MatchIncludeGraphics(s, i) ==
    IF ~StartsAt(s, "\\includegraphics", i) THEN NoMatch
    ELSE LET a == i + Len("\\includegraphics")
             close == SkipTo(s, {"]"}, a + 1)
             b == IF StartsAt(s, "[", a) /\ close < Len(s) THEN close + 1 ELSE a
             e == SkipToBrace(s, b + 1)
         IN  IF ~StartsAt(s, "{", b) \/ e = b + 1 \/ e >= Len(s) THEN NoMatch
             ELSE [end |-> e + 1, group |-> PySlice(s, b + 1, e)]

ImageSuffixes == {".png", ".jpg", ".jpeg", ".pdf", ".eps", ".svg"}

\* s.endswith(suffix)
EndsWith(s, suffix) == Len(s) >= Len(suffix) /\ StartsAt(s, suffix, Len(s) - Len(suffix))

\* \\input\{([^}]*\.(?:png|jpg|jpeg|pdf|eps|svg))\} at index i
MatchInput(s, i) ==
    IF ~StartsAt(s, "\\input{", i) THEN NoMatch
    ELSE LET a == i + Len("\\input{")
             e == SkipToBrace(s, a)
             g == PySlice(s, a, e)
         IN  IF e >= Len(s) \/ ~\E x \in ImageSuffixes : EndsWith(g, x) THEN NoMatch
             ELSE [end |-> e + 1, group |-> g]

\* \\epsfig\{file=([^,}]+) and \\psfig\{file=([^,}]+) at index i
MatchFig(s, i, macro) ==
    IF ~StartsAt(s, macro, i) THEN NoMatch
    ELSE LET a == i + Len(macro)
             e == SkipTo(s, {",", "}"}, a)
         IN  IF e = a THEN NoMatch ELSE [end |-> e, group |-> PySlice(s, a, e)]

\* the four patterns of _find_asset_references
MatchPattern(k, s, i) ==
    CASE k = 1 -> MatchIncludeGraphics(s, i)
      [] k = 2 -> MatchInput(s, i)
      [] k = 3 -> MatchFig(s, i, "\\epsfig{file=")
      [] k = 4 -> MatchFig(s, i, "\\psfig{file=")

\* re.findall(pattern k, s), as the set of its groups: the leftmost match, then
\* the matches behind it
RECURSIVE FindAll(_, _)
FindAll(k, s) ==
    LET hits == {i \in 0..(Len(s) - 1) : MatchPattern(k, s, i).end # -1}
    IN  IF hits = {} THEN {}
        ELSE LET m == MatchPattern(k, s, Least(hits))
             IN  {m.group} \cup FindAll(k, PyFrom(s, m.end))

\* _find_asset_references on the text read from the file: the set of references
find_asset_references(content) == UNION {FindAll(k, content) : k \in 1..4}

\* possible_paths of _resolve_asset_path, by position: beside the document, in
\* assets/figures beside it, in figures beside it, in assets/figures beside its parent
Candidates == 1..4

\* path.exists() of candidate c for a reference, on the file system fs
CandidateExists(fs, asset_path, c) ==
    asset_path \in DOMAIN fs.exists_at /\ c \in fs.exists_at[asset_path]

\* _resolve_asset_path: the first candidate that exists, 0 for None
resolve_asset_path(fs, asset_path) ==
    LET found == {c \in Candidates : CandidateExists(fs, asset_path, c)}
    IN  IF found = {} THEN 0 ELSE Least(found)

(***************************************************************************)
(* copy_assets                                                             *)
(***************************************************************************)

\* the number of directories above the document's directory, up to the root
Depth == 2

\* the directory the upward walk of copy_assets stops at: the first level from
\* the document's directory (level 0) that holds "assets", else the root
RECURSIVE FindAssetsRoot(_, _)
FindAssetsRoot(fs, level) ==
    IF level < Depth /\ level \notin fs.assets_dirs THEN FindAssetsRoot(fs, level + 1)
    ELSE level

\* a slip: a reference that does not resolve ends the loop
RECURSIVE CopyLoopStopsAtUnresolved(_, _, _, _, _)
CopyLoopStopsAtUnresolved(asset_refs, k, fs, copy_fails, copied_files) ==
    IF k > Len(asset_refs) \/ resolve_asset_path(fs, asset_refs[k]) = 0
    THEN [raised |-> FALSE, copied_files |-> copied_files]
    ELSE IF asset_refs[k] \in copy_fails
    THEN [raised |-> TRUE, copied_files |-> copied_files]
    ELSE CopyLoopStopsAtUnresolved(asset_refs, k + 1, fs, copy_fails,
                                   Append(copied_files, asset_refs[k]))

\* the per-reference loop of copy_assets over asset_refs[k..]: a reference that
\* resolves is copied to output_dir/<reference>, one that does not is skipped, and
\* an OSError of mkdir or shutil.copy2 (the references in copy_fails) leaves the loop
RECURSIVE CopyLoop(_, _, _, _, _)
CopyLoop(asset_refs, k, fs, copy_fails, copied_files) ==
    IF k > Len(asset_refs) THEN [raised |-> FALSE, copied_files |-> copied_files]
    ELSE IF resolve_asset_path(fs, asset_refs[k]) = 0
    THEN CopyLoop(asset_refs, k + 1, fs, copy_fails, copied_files)
    ELSE IF asset_refs[k] \in copy_fails
    THEN [raised |-> TRUE, copied_files |-> copied_files]
    ELSE CopyLoop(asset_refs, k + 1, fs, copy_fails, Append(copied_files, asset_refs[k]))

\* a slip: no assets directory falls back to the loop as a failed link does
SymlinkAssetsFallsBack(asset_refs, fs, out_assets, link_fails, copy_fails) ==
    IF FindAssetsRoot(fs, 0) \notin fs.assets_dirs \/ out_assets = "dir"
    THEN CopyLoop(asset_refs, 1, fs, copy_fails, << >>) @@ [out_assets |-> out_assets]
    ELSE IF link_fails
    THEN CopyLoop(asset_refs, 1, fs, copy_fails, << >>) @@ [out_assets |-> "absent"]
    ELSE [raised |-> FALSE, copied_files |-> <<"assets">>, out_assets |-> "symlink"]

\* the symlink branch: one link output_dir/assets to the shared assets directory;
\* unlink of a directory or symlink_to raising OSError falls back to the loop
SymlinkAssets(asset_refs, fs, out_assets, link_fails, copy_fails) ==
    IF FindAssetsRoot(fs, 0) \notin fs.assets_dirs
    THEN [raised |-> FALSE, copied_files |-> << >>, out_assets |-> out_assets]
    ELSE IF out_assets = "dir"
    THEN CopyLoop(asset_refs, 1, fs, copy_fails, << >>) @@ [out_assets |-> "dir"]
    ELSE IF link_fails
    THEN CopyLoop(asset_refs, 1, fs, copy_fails, << >>) @@ [out_assets |-> "absent"]
    ELSE [raised |-> FALSE, copied_files |-> <<"assets">>, out_assets |-> "symlink"]

\* copy_assets on the references in the order the list holds them
copy_assets(asset_refs, fs, symlinks, out_assets, link_fails, copy_fails) ==
    IF asset_refs = << >>
    THEN [raised |-> FALSE, copied_files |-> << >>, out_assets |-> out_assets]
    ELSE IF symlinks
    THEN SymlinkAssets(asset_refs, fs, out_assets, link_fails, copy_fails)
    ELSE CopyLoop(asset_refs, 1, fs, copy_fails, << >>) @@ [out_assets |-> out_assets]

\* list(asset_refs): the orders a set can be listed in
Orders(S) == {f \in [1..Cardinality(S) -> S] : \A i, j \in DOMAIN f : f[i] = f[j] => i = j}

(***************************************************************************)
(* The run: main, convert_folder, convert_file                             *)
(***************************************************************************)

VARIABLES
    pc,            \* where the run is
    entry,         \* "main" (the command line) or "api" (convert_folder called directly)
    input_kind,    \* the input path: "missing", "file" or "dir"
    tex_files,     \* find_tex_files: the documents, in enumeration order
    use_symlinks,  \* --symlink-assets
    template,      \* self.template
    config,        \* self.config
    now,           \* datetime.now()
    folder_name,   \* input_folder.name
    fs,            \* the files and assets directories around the documents
    out_assets,    \* output_dir/assets: "absent", "symlink" or "dir"
    output_dir,    \* the .tex files of the output directory, name -> text
    idx,           \* the position of the loop of convert_folder in tex_files
    successful,    \* convert_folder's counter
    failed,        \* convert_folder's counter
    status,        \* per document: its stage, "success" or "failed"
    failed_at,     \* per document: the stage it failed at, "" when it has not
    attempts,      \* per document: the number of calls of convert_file
    content,       \* convert_file: the extracted body, "" outside the call
    composed,      \* convert_file: the template with the metadata injected
    new_content,   \* convert_file: the text to write
    asset_call,    \* convert_file: what its call of copy_assets saw and returned
    folder_raised, \* convert_folder left by an exception
    retval,        \* what convert_folder returned, -1 before
    exit_code,     \* the exit code of the process, -1 before
    arg,           \* the argument of a function applied on its own
    res            \* its result

vars ==
    <<pc, entry, input_kind, tex_files, use_symlinks, template, config, now, folder_name,
      fs, out_assets, output_dir, idx, successful, failed, status, failed_at, attempts,
      content, composed, new_content, asset_call, folder_raised, retval, exit_code,
      arg, res>>

\* the variables of the environment and of the construction, which no step changes
inputs ==
    <<entry, input_kind, tex_files, use_symlinks, template, config, now, folder_name, fs>>

MaxFiles == 2

NoCall == [called |-> FALSE]

\* the documents a folder is made of: one that converts, with two asset
\* references; months 13 and 0; no begin marker (and no date); no end marker
Documents ==
    {[name |-> "2024-03-15-notes.tex",
      text |-> "\\begin{document}\n\\href{run:x}{T}\nHello world.\\includegraphics{a.png}\\includegraphics[w]{b.png}\n\\end{document}\n"],
     [name |-> "2024-13-01.tex",
      text |-> "\\begin{document}A\\includegraphics{a.png}\\end{document}"],
     [name |-> "2024-0-7.tex", text |-> "\\begin{document}\\section{ }B\\end{document}"],
     [name |-> "notes.tex", text |-> "Hello world.\\end{document}"],
     [name |-> "x2022-99-9.tex", text |-> "\\begin{document}\\includegraphics{a.png}"]}

\* the orders find_tex_files can list up to MaxFiles documents of the folder in
Folders ==
    {f \in UNION {[1..n -> Documents] : n \in 0..MaxFiles} :
        \A i, j \in DOMAIN f : f[i] = f[j] => i = j}

Templates ==
    {"\\title{<DIARY_TITLE>}\\author{<AUTHOR>}%<TAGs>: <TAGS>\n\\begin{document}<MONTH_NAME> <DAY_NUMBER>\n\\bibliographystyle{plain}\\end{document}\n",
     ""}

Configs == {[author |-> "Ann", institution |-> "Lab", diary_title |-> "Diary"]}

AssetNames == {"a.png", "b.png"}

\* a directory that holds assets/figures/<x> holds assets
FsConsistent(f) ==
    /\ (\E a \in AssetNames : 2 \in f.exists_at[a]) => 0 \in f.assets_dirs
    /\ (\E a \in AssetNames : 4 \in f.exists_at[a]) => 1 \in f.assets_dirs

AllFileSystems ==
    {f \in [exists_at : [AssetNames -> SUBSET Candidates], assets_dirs : SUBSET (0..Depth)] :
        FsConsistent(f)}

\* the file systems of the runs over whole folders
FolderFileSystems ==
    {f \in AllFileSystems :
        \/ f.exists_at["a.png"] = {} /\ f.exists_at["b.png"] = {} /\ f.assets_dirs = {}
        \/ f.exists_at["a.png"] = {1} /\ f.exists_at["b.png"] = {} /\ f.assets_dirs = {}
        \/ f.exists_at["a.png"] = {4} /\ f.exists_at["b.png"] = {1, 3} /\ f.assets_dirs = {1}}

Init ==
    /\ entry \in {"main", "api"}
    /\ pc = IF entry = "main" THEN "main" ELSE "convert_folder"
    /\ input_kind \in {"missing", "file", "dir"}
    /\ tex_files \in IF input_kind = "dir" THEN Folders ELSE {<< >>}
    /\ use_symlinks \in BOOLEAN
    /\ template \in Templates
    /\ config \in Configs
    /\ now = [year |-> 2026, month |-> 11, day |-> 4]
    /\ folder_name = "2024"
    /\ fs \in FolderFileSystems
    /\ out_assets = "absent"
    /\ output_dir = << >>
    /\ idx = 0
    /\ successful = 0
    /\ failed = 0
    /\ status = [i \in DOMAIN tex_files |-> "pending"]
    /\ failed_at = [i \in DOMAIN tex_files |-> ""]
    /\ attempts = [i \in DOMAIN tex_files |-> 0]
    /\ content = ""
    /\ composed = ""
    /\ new_content = ""
    /\ asset_call = NoCall
    /\ folder_raised = FALSE
    /\ retval = -1
    /\ exit_code = -1
    /\ arg = ""
    /\ res = None

\* main: the input path is missing or no directory, sys.exit(1)
MainRejectsInput ==
    /\ pc = "main"
    /\ input_kind # "dir"
    /\ exit_code' = 1
    /\ pc' = "exited"
    /\ UNCHANGED <<inputs, out_assets, output_dir, idx, successful, failed, status, failed_at,
                   attempts, content, composed, new_content, asset_call, folder_raised,
                   retval, arg, res>>

\* main: the input path is a directory, convert_folder is called
MainCallsConvertFolder ==
    /\ pc = "main"
    /\ input_kind = "dir"
    /\ pc' = "convert_folder"
    /\ UNCHANGED <<inputs, out_assets, output_dir, idx, successful, failed, status, failed_at,
                   attempts, content, composed, new_content, asset_call, folder_raised,
                   retval, exit_code, arg, res>>

\* convert_folder: the early returns, 1 for a missing input folder and 0 for no .tex file
ConvertFolderReturnsEarly ==
    /\ pc = "convert_folder"
    /\ input_kind = "missing" \/ tex_files = << >>
    /\ retval' = IF input_kind = "missing" THEN 1 ELSE 0
    /\ pc' = "returned"
    /\ UNCHANGED <<inputs, out_assets, output_dir, idx, successful, failed, status, failed_at,
                   attempts, content, composed, new_content, asset_call, folder_raised,
                   exit_code, arg, res>>

\* convert_folder: output_folder.mkdir, which may raise, and the start of the loop
ConvertFolderStarts ==
    /\ pc = "convert_folder"
    /\ input_kind # "missing" /\ tex_files # << >>
    /\ \E mkdir_ok \in BOOLEAN :
        /\ folder_raised' = ~mkdir_ok
        /\ pc' = IF mkdir_ok THEN "file" ELSE "raised"
        /\ idx' = IF mkdir_ok THEN 1 ELSE idx
    /\ successful' = 0
    /\ failed' = 0
    /\ UNCHANGED <<inputs, out_assets, output_dir, status, failed_at, attempts, content,
                   composed, new_content, asset_call, retval, exit_code, arg, res>>

\* the loop of convert_folder after convert_file returned for tex_files[idx]
NextFile == IF idx = Len(tex_files) THEN "summary" ELSE "file"

\* a slip: a failed document ends the loop
FileFailsEndsLoop(stage) ==
    /\ failed' = failed + 1
    /\ status' = [status EXCEPT ![idx] = "failed"]
    /\ failed_at' = [failed_at EXCEPT ![idx] = stage]
    /\ idx' = idx + 1
    /\ pc' = "summary"
    /\ content' = ""
    /\ composed' = ""
    /\ new_content' = ""
    /\ UNCHANGED successful

\* convert_file returned False at a stage (its locals are gone): failed += 1
FileFails(stage) ==
    /\ failed' = failed + 1
    /\ status' = [status EXCEPT ![idx] = "failed"]
    /\ failed_at' = [failed_at EXCEPT ![idx] = stage]
    /\ idx' = idx + 1
    /\ pc' = NextFile
    /\ content' = ""
    /\ composed' = ""
    /\ new_content' = ""
    /\ UNCHANGED successful

\* convert_file returned True: successful += 1
FileSucceeds ==
    /\ successful' = successful + 1
    /\ status' = [status EXCEPT ![idx] = "success"]
    /\ idx' = idx + 1
    /\ pc' = NextFile
    /\ content' = ""
    /\ composed' = ""
    /\ new_content' = ""
    /\ UNCHANGED <<failed, failed_at>>

\* convert_file: extract_content, None when the file cannot be read or has no body
Extract ==
    /\ pc = "file"
    /\ attempts' = [attempts EXCEPT ![idx] = @ + 1]
    /\ \E read_ok \in BOOLEAN :
        LET body == IF read_ok THEN extract_content(tex_files[idx].text) ELSE None
        IN  IF body.some
            THEN /\ content' = body.val
                 /\ status' = [status EXCEPT ![idx] = "extracted"]
                 /\ pc' = "compose"
                 /\ UNCHANGED <<idx, successful, failed, failed_at, composed, new_content>>
            ELSE FileFails("extract")
    /\ asset_call' = NoCall
    /\ UNCHANGED <<inputs, out_assets, output_dir, folder_raised, retval, exit_code, arg, res>>

\* convert_file: inject_personal_info, whose IndexError is caught, and the insertion
Compose ==
    /\ pc = "compose"
    /\ LET t == inject_personal_info(template, tex_files[idx].name, folder_name, config, now)
       IN  IF t.some
           THEN /\ composed' = t.val
                /\ new_content' = InsertContent(t.val, content)
                /\ status' = [status EXCEPT ![idx] = "composed"]
                /\ pc' = "write"
                /\ UNCHANGED <<idx, successful, failed, failed_at, content>>
           ELSE FileFails("compose")
    /\ UNCHANGED <<inputs, out_assets, output_dir, attempts, asset_call,
                   folder_raised, retval, exit_code, arg, res>>

\* output_dir with the file name holding text
WithFile(dir, name, text) ==
    [n \in DOMAIN dir \cup {name} |-> IF n = name THEN text ELSE dir[n]]

\* convert_file: open(output_file, "w") and f.write; open may raise and leave
\* nothing, write may raise and leave the file truncated
Write ==
    /\ pc = "write"
    /\ \E outcome \in {"written", "open_raises", "write_raises"} :
        /\ output_dir' =
              CASE outcome = "written" -> WithFile(output_dir, tex_files[idx].name, new_content)
                [] outcome = "write_raises" -> WithFile(output_dir, tex_files[idx].name, "")
                [] outcome = "open_raises" -> output_dir
        /\ IF outcome = "written"
           THEN /\ status' = [status EXCEPT ![idx] = "written"]
                /\ pc' = "assets"
                /\ UNCHANGED <<idx, successful, failed, failed_at, content, composed,
                               new_content>>
           ELSE FileFails("write")
    /\ UNCHANGED <<inputs, out_assets, attempts, asset_call,
                   folder_raised, retval, exit_code, arg, res>>

\* convert_file: copy_assets, whose exceptions are caught, and the return of True
Assets ==
    /\ pc = "assets"
    /\ \E read_ok \in BOOLEAN, link_fails \in (IF use_symlinks THEN BOOLEAN ELSE {FALSE}) :
        LET refs == IF read_ok THEN find_asset_references(tex_files[idx].text) ELSE {}
        IN  \E asset_refs \in Orders(refs),
               copy_fails \in SUBSET {a \in refs : resolve_asset_path(fs, a) # 0} :
                LET r == copy_assets(asset_refs, fs, use_symlinks, out_assets, link_fails,
                                     copy_fails)
                IN  /\ asset_call' =
                          [called |-> TRUE, asset_refs |-> asset_refs,
                           out_assets |-> out_assets, link_fails |-> link_fails,
                           copy_fails |-> copy_fails, raised |-> r.raised,
                           copied_files |-> r.copied_files]
                    /\ out_assets' = r.out_assets
                    /\ IF r.raised THEN FileFails("assets") ELSE FileSucceeds
    /\ UNCHANGED <<inputs, output_dir, attempts, folder_raised, retval, exit_code, arg, res>>

\* a slip: return successful
ConvertFolderReturnsSuccessful ==
    /\ pc = "summary"
    /\ retval' = successful
    /\ pc' = "returned"
    /\ UNCHANGED <<inputs, out_assets, output_dir, idx, successful, failed, status, failed_at,
                   attempts, content, composed, new_content, asset_call, folder_raised,
                   exit_code, arg, res>>

\* convert_folder: return failed
ConvertFolderReturns ==
    /\ pc = "summary"
    /\ retval' = failed
    /\ pc' = "returned"
    /\ UNCHANGED <<inputs, out_assets, output_dir, idx, successful, failed, status, failed_at,
                   attempts, content, composed, new_content, asset_call, folder_raised,
                   exit_code, arg, res>>

\* main: after convert_folder, exit 1 on failed_count # 0 or on an exception, else 0
MainExits ==
    /\ entry = "main"
    /\ pc \in {"returned", "raised"}
    /\ exit_code' = IF pc = "raised" \/ retval # 0 THEN 1 ELSE 0
    /\ pc' = "exited"
    /\ UNCHANGED <<inputs, out_assets, output_dir, idx, successful, failed, status, failed_at,
                   attempts, content, composed, new_content, asset_call, folder_raised,
                   retval, arg, res>>

Next ==
    \/ MainRejectsInput
    \/ MainCallsConvertFolder
    \/ ConvertFolderReturnsEarly
    \/ ConvertFolderStarts
    \/ Extract
    \/ Compose
    \/ Write
    \/ Assets
    \/ ConvertFolderReturns
    \/ MainExits

Spec == Init /\ [][Next]_vars

(***************************************************************************)
(* copy_assets over every file system: the run of a one-document folder,   *)
(* taken up where convert_file has written the output and calls copy_assets*)
(***************************************************************************)

\* documents by their asset references: two references, and one reference twice
\* beside one to a file that no file system holds
AssetDocuments ==
    {[name |-> "2024-03-15-notes.tex",
      text |-> "\\begin{document}\\includegraphics{a.png}\\input{b.png}\\end{document}"],
     [name |-> "2024-1-2.tex",
      text |-> "\\begin{document}\\epsfig{file=a.png,w=1}\\psfig{file=a.png}\\includegraphics{c.png}\\end{document}"]}

AssetsTemplate == "<MONTH_NAME> <DAY_NUMBER>\n\\end{document}\n"

InitAssets ==
    /\ entry = "main"
    /\ pc = "assets"
    /\ input_kind = "dir"
    /\ tex_files \in {<<d>> : d \in AssetDocuments}
    /\ use_symlinks \in BOOLEAN
    /\ template = AssetsTemplate
    /\ config \in Configs
    /\ now = [year |-> 2026, month |-> 11, day |-> 4]
    /\ folder_name = "2024"
    /\ fs \in AllFileSystems
    /\ out_assets \in {"absent", "symlink", "dir"}
    /\ idx = 1
    /\ successful = 0
    /\ failed = 0
    /\ status = <<"written">>
    /\ failed_at = <<"">>
    /\ attempts = <<1>>
    /\ content = extract_content(tex_files[1].text).val
    /\ composed =
          inject_personal_info(template, tex_files[1].name, folder_name, config, now).val
    /\ new_content = InsertContent(composed, content)
    /\ output_dir = WithFile(<< >>, tex_files[1].name, new_content)
    /\ asset_call = NoCall
    /\ folder_raised = FALSE
    /\ retval = -1
    /\ exit_code = -1
    /\ arg = ""
    /\ res = None

NextAssets == Assets

SpecAssets == InitAssets /\ [][NextAssets]_vars

(***************************************************************************)
(* The text functions applied on their own                                 *)
(***************************************************************************)

\* the variables of the run, which a function applied on its own leaves alone
run_vars ==
    <<entry, input_kind, tex_files, use_symlinks, template, config, now, folder_name, fs,
      out_assets, output_dir, idx, successful, failed, status, failed_at, attempts, content,
      composed, new_content, asset_call, folder_raised, retval, exit_code>>

\* no run: the converter is constructed and a function is about to be applied
NoRun(call) ==
    /\ pc = call
    /\ entry = "api"
    /\ input_kind = "dir"
    /\ tex_files = << >>
    /\ use_symlinks = FALSE
    /\ template = ""
    /\ fs \in {f \in AllFileSystems : f.assets_dirs = {} /\ \A a \in AssetNames : f.exists_at[a] = {}}
    /\ out_assets = "absent"
    /\ output_dir = << >>
    /\ idx = 0
    /\ successful = 0
    /\ failed = 0
    /\ status = << >>
    /\ failed_at = << >>
    /\ attempts = << >>
    /\ content = ""
    /\ composed = ""
    /\ new_content = ""
    /\ asset_call = NoCall
    /\ folder_raised = FALSE
    /\ retval = -1
    /\ exit_code = -1
    /\ res = None

\* the strings made of at most n of the pieces
RECURSIVE Pieces(_, _)
Pieces(pieces, n) ==
    IF n = 0 THEN {""}
    ELSE LET shorter == Pieces(pieces, n - 1)
         IN  shorter \cup {s \o p : s \in shorter, p \in pieces}

MaxPieces == 3

BodyPieces == {" ", "x", "\n", "\\section{}", "\\href{run:a}{b}", "\\sec", "tion{ }"}

\* documents with both markers around a body, and documents that lack a marker
ExtractInputs ==
    {"\\documentclass{article}\n" \o BeginDocument \o b \o EndDocument \o "\n" :
        b \in Pieces(BodyPieces, MaxPieces)}
    \cup {BeginDocument \o "x", "x" \o EndDocument, "x", "",
          EndDocument \o "x" \o BeginDocument}

InitExtract ==
    /\ NoRun("extract_content")
    /\ config \in Configs
    /\ now = [year |-> 2026, month |-> 11, day |-> 4]
    /\ folder_name = "2024"
    /\ arg \in ExtractInputs

\* extract_content(arg)
ExtractCall ==
    /\ pc = "extract_content"
    /\ res' = [first |-> extract_content(arg)]
    /\ pc' = "extract_again"
    /\ UNCHANGED <<run_vars, arg>>

\* a document whose body between the markers is body
Rewrapped(body, pad) == BeginDocument \o pad \o body \o pad \o EndDocument

\* extract_content of a document whose body is the result of the first extraction
ExtractAgain ==
    /\ pc = "extract_again"
    /\ res.first.some
    /\ \E pad \in {"", "\n"} :
        res' = [first |-> res.first, pad |-> pad,
                second |-> extract_content(Rewrapped(res.first.val, pad))]
    /\ pc' = "extracted_twice"
    /\ UNCHANGED <<run_vars, arg>>

NextExtract == ExtractCall \/ ExtractAgain

SpecExtract == InitExtract /\ [][NextExtract]_vars

\* file names with a date-shaped substring between a head and a tail, and without
DateNames ==
    {head \o year \o "-" \o month \o "-" \o day \o tail \o ".tex" :
        head \in {"", "x", "1", "2023-1-1_", "20-"},
        year \in {"2024", "0007"},
        month \in {"0", "00", "3", "03", "12", "13", "99"},
        day \in {"1", "15", "0", "31"},
        tail \in {"", "5", "-notes", "_2025-2-2", "-"}}
    \cup {"notes.tex", "2024-1.tex", "202-1-1.tex", "2024-123-1.tex", "2024--1-1.tex"}

InitDate ==
    /\ NoRun("get_date_info")
    /\ config \in Configs
    /\ now \in {[year |-> 2026, month |-> 11, day |-> 4], [year |-> 2027, month |-> 1, day |-> 31]}
    /\ folder_name = "2024"
    /\ arg \in DateNames

\* get_date_info(Path(arg))
DateCall ==
    /\ pc = "get_date_info"
    /\ res' = get_date_info(arg, now)
    /\ pc' = "date_returned"
    /\ UNCHANGED <<run_vars, arg>>

NextDate == DateCall

SpecDate == InitDate /\ [][NextDate]_vars

Placeholders ==
    <<"<YEAR>", "<MONTH>", "<DAY>", "<MONTH_NAME>", "<DAY_NUMBER>", "<AUTHOR>",
      "<INSTITUTION>", "<DIARY_TITLE>", "<FILENAME>", "<TAGS>">>

\* templates that hold every placeholder once: plain, in another order with the
\* tag-comment line, and with text around a placeholder that is part of a token
InjectTemplates ==
    {"<YEAR>-<MONTH>-<DAY> <MONTH_NAME> <DAY_NUMBER> <AUTHOR> <INSTITUTION> <DIARY_TITLE> <FILENAME> <TAGS>",
     "%<TAGs>: <TAGS>\n<FILENAME><DIARY_TITLE>/<INSTITUTION>/<AUTHOR>/<DAY_NUMBER>/<MONTH_NAME>/<DAY>/<MONTH>/<YEAR>\\end{document}",
     "<YEAR><MONTH><DAY><MONTH_NAME><DAY_NUMBER><D<AUTHOR>Y><INSTITUTION><DIARY_TITLE><FILENAME><TAGS>"}

InjectConfigs ==
    {[author |-> a, institution |-> i, diary_title |-> "Diary"] :
        a \in {"Ann", "", "A", "<FILENAME>", "x > y"}, i \in {"Lab", "<TAGS>"}}
    \cup {[k \in {} |-> ""], [author |-> "Ann"]}

InitInject ==
    /\ NoRun("inject_personal_info")
    /\ config \in InjectConfigs
    /\ now \in {[year |-> 2026, month |-> 11, day |-> 4]}
    /\ folder_name \in {"2024", "", "<YEAR>", "a<b"}
    /\ arg \in [template : InjectTemplates,
                name : {"2024-03-15-notes.tex", "notes.tex", "2024-13-1.tex", "2024-0-1.tex",
                        "<TAGS>.tex"}]

\* inject_personal_info(arg.template, Path(arg.name), folder_name)
InjectCall ==
    /\ pc = "inject_personal_info"
    /\ res' = inject_personal_info(arg.template, arg.name, folder_name, config, now)
    /\ pc' = "injected"
    /\ UNCHANGED <<run_vars, arg>>

NextInject == InjectCall

SpecInject == InitInject /\ [][NextInject]_vars

(***************************************************************************)
(* The claims about the run of a folder (Spec)                             *)
(***************************************************************************)

Terminal == {"success", "failed"}

InLoop == pc \in {"file", "compose", "write", "assets"}

Failed == {i \in DOMAIN tex_files : status[i] = "failed"}

Succeeded == {i \in DOMAIN tex_files : status[i] = "success"}

\* C1: every document of the folder is attempted exactly once and ends as success
\* or failed; a failure at any stage is counted once and the loop goes on to the
\* documents after it, so when the loop is left successful + failed = n.
C1_EveryFileOnce ==
    /\ \A i \in DOMAIN tex_files :
        /\ attempts[i] = IF status[i] = "pending" THEN 0 ELSE 1
        /\ (status[i] = "failed") = (failed_at[i] # "")
        /\ i < idx => status[i] \in Terminal
    /\ successful = Cardinality(Succeeded)
    /\ failed = Cardinality(Failed)
    /\ (idx > 0 /\ ~InLoop) =>
        /\ pc # "raised"
        /\ Succeeded \cup Failed = DOMAIN tex_files
        /\ successful + failed = Len(tex_files)

\* a first document that failed in asset handling, and the second converted
C1_Witness ==
    /\ pc = "summary"
    /\ Len(tex_files) = 2
    /\ status[1] = "failed" /\ failed_at[1] = "assets"
    /\ status[2] = "success"

\* C2 as stated: convert_folder returns the number of failed documents, and the
\* exit code is 0 exactly when the input is a directory and no document failed
C2_Original ==
    /\ retval # -1 => retval = Cardinality(Failed)
    /\ pc = "exited" =>
        /\ exit_code = 0 <=> (input_kind = "dir" /\ Failed = {})
        /\ exit_code = 1 <=> (input_kind # "dir" \/ Failed # {})

\* C2, amended: convert_folder returns 1 for a missing input folder and else the
\* number of failed documents (0 when there is no .tex file); the exit code is 0
\* exactly when the input is a directory, convert_folder raised no exception
\* (creating the output folder can) and no document failed, and 1 otherwise.
C2_ExitStatus ==
    /\ retval # -1 =>
        retval = IF input_kind = "missing" THEN 1 ELSE Cardinality(Failed)
    /\ (retval # -1 /\ tex_files = << >> /\ input_kind # "missing") => retval = 0
    /\ pc = "exited" =>
        /\ exit_code \in {0, 1}
        /\ exit_code = 0 <=> (input_kind = "dir" /\ ~folder_raised /\ Failed = {})

\* a run that exits 1 with one document failed and one converted
C2_Witness ==
    /\ pc = "exited"
    /\ exit_code = 1
    /\ retval = 1
    /\ Failed # {} /\ Succeeded # {}

LacksMarker(text) == ~Contains(text, BeginDocument) \/ ~Contains(text, EndDocument)

\* C3: a document without the begin-body or the end-body marker: extract_content
\* returns None, convert_file returns False (counted failed) with no file written
\* for it in the output directory and no asset handling.
C3_NoMarkersSkipped ==
    \A i \in DOMAIN tex_files :
        (status[i] # "pending" /\ LacksMarker(tex_files[i].text)) =>
            /\ extract_content(tex_files[i].text) = None
            /\ status[i] = "failed"
            /\ failed_at[i] = "extract"
            /\ tex_files[i].name \notin DOMAIN output_dir
            /\ (idx = i + 1 /\ pc \in {"file", "summary"}) => ~asset_call.called

\* a document with the begin marker and no end marker was attempted
C3_Witness ==
    \E i \in DOMAIN tex_files :
        /\ status[i] = "failed"
        /\ Contains(tex_files[i].text, BeginDocument)
        /\ ~Contains(tex_files[i].text, EndDocument)
        /\ failed = 1

\* the month of the date pattern in the name of document i, -1 when it has none
MonthOf(i) ==
    LET m == DateSearch(Stem(tex_files[i].name))
    IN  IF m.some THEN ParseInt(m.val.month) ELSE -1

\* convert_file got the body of document i and went on to compose
PastExtraction(i) == status[i] \notin {"pending", "extracted"} /\ failed_at[i] # "extract"

\* C9 as stated: a document whose date pattern carries month 0 or 13..99 fails in
\* the month-name lookup: it is counted failed and no output file is written
C9_Original ==
    \A i \in DOMAIN tex_files :
        (PastExtraction(i) /\ MonthOf(i) \in {0} \cup 13..99) =>
            /\ get_date_info(tex_files[i].name, now).raised
            /\ status[i] = "failed" /\ failed_at[i] = "compose"
            /\ tex_files[i].name \notin DOMAIN output_dir

\* C9, the run that departs from it: a folder whose month-13 document failed in
\* the lookup and whose month-0 document converted, its output naming December
C9_Witness ==
    \E i, j \in DOMAIN tex_files :
        /\ MonthOf(i) = 13 /\ status[i] = "failed" /\ failed_at[i] = "compose"
        /\ MonthOf(j) = 0 /\ status[j] = "success"
        /\ Contains(output_dir[tex_files[j].name], "December")

\* C10: the text written for a document is the composed template with the body
\* and "\n\n" spliced in immediately before the first \bibliographystyle if the
\* composed template holds one, else immediately before \end{document}.
C10_SplicedBeforeMarker ==
    pc = "assets" =>
        LET marker == IF Contains(composed, "\\bibliographystyle")
                      THEN "\\bibliographystyle" ELSE EndDocument
            at == Find(composed, marker)
        IN  /\ at >= 0
            /\ StartsAt(composed, marker, at)
            /\ output_dir[tex_files[idx].name] =
                   SubSeq(composed, 1, at) \o content \o "\n\n"
                       \o SubSeq(composed, at + 1, Len(composed))

(***************************************************************************)
(* The claims about copy_assets (SpecAssets)                               *)
(***************************************************************************)

SeqToSet(seq) == {seq[k] : k \in DOMAIN seq}

\* the reference resolves to an existing file
Resolves(a) == \E c \in Candidates : CandidateExists(fs, a, c)

\* the references of the call that resolve
ResolvedRefs == {a \in SeqToSet(asset_call.asset_refs) : Resolves(a)}

\* the call was in symlink mode with references to handle
SymlinkCall == asset_call.called /\ use_symlinks /\ asset_call.asset_refs # << >>

\* an assets directory was there and unlinking the old output_dir/assets or
\* creating the link raised OSError
LinkRaised ==
    fs.assets_dirs # {} /\ (asset_call.out_assets = "dir" \/ asset_call.link_fails)

\* the references the loop copied before the first copy that raised
CopiedBeforeFailure ==
    LET refs == asset_call.asset_refs
        bad == {k \in DOMAIN refs : refs[k] \in asset_call.copy_fails}
    IN  {refs[k] : k \in {j \in DOMAIN refs : Resolves(refs[j]) /\ \A b \in bad : j < b}}

\* C4 as stated: in symlink mode, with no assets directory in the document's
\* directory or above it, or with a failed link, every reference that resolves is copied
C4_Original ==
    (SymlinkCall /\ (fs.assets_dirs = {} \/ LinkRaised) /\ ~asset_call.raised) =>
        SeqToSet(asset_call.copied_files) = ResolvedRefs

\* C4, amended: in symlink mode, with no assets directory in the document's
\* directory or above it, copy_assets copies nothing and returns an empty list (a
\* warning is all); the fallback to copying every reference that resolves happens
\* only when an assets directory was found and unlinking or linking raised OSError
\* (a copy that raises in the fallback leaves copy_assets); else the one link is made.
C4_SymlinkFallback ==
    SymlinkCall =>
        /\ fs.assets_dirs = {} =>
            /\ asset_call.copied_files = << >>
            /\ ~asset_call.raised
            /\ out_assets = asset_call.out_assets
            /\ status[1] = "success"
        /\ LinkRaised =>
            /\ asset_call.raised = (asset_call.copy_fails # {})
            /\ SeqToSet(asset_call.copied_files) = CopiedBeforeFailure
            /\ ~asset_call.raised => SeqToSet(asset_call.copied_files) = ResolvedRefs
            /\ out_assets # "symlink"
        /\ (fs.assets_dirs # {} /\ ~LinkRaised) =>
            /\ asset_call.copied_files = <<"assets">>
            /\ out_assets = "symlink"

\* symlink mode, no assets directory anywhere, a reference that resolves beside
\* the document, and nothing copied
C4_Witness ==
    /\ SymlinkCall
    /\ fs.assets_dirs = {}
    /\ ResolvedRefs # {}
    /\ asset_call.copied_files = << >>
    /\ status[1] = "success"

\* C5 as stated: an unresolved reference or a copy that fails skips that one
\* asset, every other reference is copied, and the document does not fail
C5_Original ==
    (asset_call.called /\ ~use_symlinks) =>
        /\ SeqToSet(asset_call.copied_files) = ResolvedRefs \ asset_call.copy_fails
        /\ status[1] = "success"

\* C5, amended: in copy mode a reference that does not resolve is skipped and
\* every other reference is still resolved and copied, the document converting;
\* a copy that raises is not skipped: it ends copy_assets, the references after it
\* are not copied, and the document is counted failed (its output file stays).
C5_AssetFailures ==
    (asset_call.called /\ ~use_symlinks) =>
        /\ asset_call.copy_fails = {} =>
            /\ SeqToSet(asset_call.copied_files) = ResolvedRefs
            /\ Len(asset_call.copied_files) = Cardinality(ResolvedRefs)
            /\ ~asset_call.raised
            /\ status[1] = "success" /\ successful = 1 /\ failed = 0
        /\ asset_call.copy_fails # {} =>
            /\ asset_call.raised
            /\ SeqToSet(asset_call.copied_files) = CopiedBeforeFailure
            /\ status[1] = "failed" /\ failed_at[1] = "assets" /\ failed = 1
            /\ tex_files[1].name \in DOMAIN output_dir

\* copy mode: the first reference listed does not resolve, the one after it is copied
C5_Witness ==
    /\ asset_call.called /\ ~use_symlinks
    /\ Len(asset_call.asset_refs) = 2
    /\ ~Resolves(asset_call.asset_refs[1])
    /\ asset_call.copied_files = <<asset_call.asset_refs[2]>>
    /\ status[1] = "success"

(***************************************************************************)
(* The claim about extract_content (SpecExtract)                           *)
(***************************************************************************)

\* the text of arg between the markers, as it stands
RawBody == PySlice(arg, Find(arg, BeginDocument) + Len(BeginDocument), Find(arg, EndDocument))

\* the body holds no title link and no empty section heading
NothingToRemove ==
    \A i \in 0..Len(RawBody) :
        MatchTitleLink(RawBody, i) = -1 /\ MatchEmptySection(RawBody, i) = -1

\* C6 as stated: extracting from a document whose body is the result of an
\* extraction returns that result
C6_Original == pc = "extracted_twice" => res.second = res.first

\* C6, amended: extraction is idempotent on the documents whose body holds no
\* title link and no empty section heading: the result is the trimmed body, and
\* extracting from a document with that body returns it again.  (A removal can
\* leave whitespace at an end of the result, or join text into a new pattern.)
C6_ExtractIdempotent ==
    /\ (pc # "extract_content" /\ res.first.some /\ NothingToRemove) =>
        res.first.val = Strip(RawBody)
    /\ (pc = "extracted_twice" /\ NothingToRemove) => res.second = res.first

\* a body with whitespace around text and nothing to remove, extracted twice
C6_Witness ==
    /\ pc = "extracted_twice"
    /\ NothingToRemove
    /\ res.first.val # RawBody
    /\ res.first.val # ""
    /\ res.second = res.first

(***************************************************************************)
(* The claim about get_date_info (SpecDate)                                *)
(***************************************************************************)

AllDigits(s, from, n) == \A k \in 0..(n - 1) : IsDigitAt(s, from + k)

\* s[i:] starts with YYYY-M-D, the month of m and the day of d digits
IsDateShape(s, i, m, d) ==
    /\ AllDigits(s, i, 4)
    /\ StartsAt(s, "-", i + 4)
    /\ AllDigits(s, i + 5, m)
    /\ StartsAt(s, "-", i + 5 + m)
    /\ AllDigits(s, i + 6 + m, d)

\* the date-shaped substrings of s, as <<index, month digits, day digits>>
DateShapes(s) ==
    {x \in (0..Len(s)) \X (1..2) \X (1..2) : IsDateShape(s, x[1], x[2], x[3])}

YearAt(s, x) == PySlice(s, x[1], x[1] + 4)

MonthAt(s, x) == ParseInt(PySlice(s, x[1] + 5, x[1] + 5 + x[2]))

DayAt(s, x) == ParseInt(PySlice(s, x[1] + 6 + x[2], x[1] + 6 + x[2] + x[3]))

\* the date-shaped substring that starts first and, there, is the longest
FirstLongestShape(s) ==
    CHOOSE x \in DateShapes(s) :
        \A y \in DateShapes(s) : x[1] < y[1] \/ (x[1] = y[1] /\ x[3] >= y[3])

\* the date-shaped substrings of s taken with all the day digits that are there
WholeDateShapes(s) ==
    {x \in DateShapes(s) : \A y \in DateShapes(s) : y[1] = x[1] => y[3] <= x[3]}

\* C8 as stated, on the names whose months are all within 1..12: the date
\* returned is that of any date-shaped substring of the name, whatever precedes
\* or follows it (a second date-shaped substring too)
C8_Original ==
    (pc = "date_returned" /\ \A y \in DateShapes(Stem(arg)) : MonthAt(Stem(arg), y) \in 1..12) =>
        \A x \in WholeDateShapes(Stem(arg)) :
            /\ ~res.raised
            /\ res.year = YearAt(Stem(arg), x)
            /\ res.month = IntToStr(MonthAt(Stem(arg), x))
            /\ res.day = IntToStr(DayAt(Stem(arg), x))

\* C8, amended: for a name with a date-shaped substring, get_date_info returns
\* the year, month and day of the one that starts first, its day taken with two
\* digits when two digits follow (so a substring that starts later, or shares the
\* start with a shorter day, is not the one returned), provided its month is at
\* most 12; with a month of 13..99 the call raises and returns nothing.
C8_FirstDateWins ==
    (pc = "date_returned" /\ DateShapes(Stem(arg)) # {}) =>
        LET x == FirstLongestShape(Stem(arg))
        IN  IF MonthAt(Stem(arg), x) > 12 THEN res.raised
            ELSE /\ ~res.raised
                 /\ res.year = YearAt(Stem(arg), x)
                 /\ res.month = IntToStr(MonthAt(Stem(arg), x))
                 /\ res.day = IntToStr(DayAt(Stem(arg), x))
                 /\ res.day_number = res.day

\* a name with date-shaped substrings at two places and a two-digit day
C8_Witness ==
    /\ pc = "date_returned"
    /\ \E x, y \in DateShapes(Stem(arg)) : x[1] < y[1] /\ x[3] = 2
    /\ ~res.raised
    /\ res.year = "2023"

(***************************************************************************)
(* The claim about inject_personal_info (SpecInject)                       *)
(***************************************************************************)

\* the value each placeholder stands for
PlaceholderValues ==
    LET d == get_date_info(arg.name, now)
    IN  [p \in SeqToSet(Placeholders) |->
            CASE p = "<YEAR>" -> d.year
              [] p = "<MONTH>" -> d.month
              [] p = "<DAY>" -> d.day
              [] p = "<MONTH_NAME>" -> d.month_name
              [] p = "<DAY_NUMBER>" -> d.day_number
              [] p = "<AUTHOR>" -> ConfigGet(config, "author", "Unknown Author")
              [] p = "<INSTITUTION>" -> ConfigGet(config, "institution", "Unknown Institution")
              [] p = "<DIARY_TITLE>" -> ConfigGet(config, "diary_title", "Research Diary")
              [] p = "<FILENAME>" -> arg.name
              [] p = "<TAGS>" -> folder_name]

\* t with every placeholder, where it stands in t, replaced by its value
RECURSIVE Substituted(_, _)
Substituted(t, values) ==
    LET hits == {i \in 0..(Len(t) - 1) : \E p \in DOMAIN values : StartsAt(t, p, i)}
    IN  IF hits = {} THEN t
        ELSE LET i == Least(hits)
                 p == CHOOSE q \in DOMAIN values : StartsAt(t, q, i)
             IN  PySlice(t, 0, i) \o values[p] \o Substituted(PyFrom(t, i + Len(p)), values)

EveryPlaceholderOnce == \A p \in SeqToSet(Placeholders) : Occurrences(arg.template, p) = 1

\* the result holds each value where its placeholder stood and no placeholder
FullySubstituted ==
    /\ res.some
    /\ res.val = Substituted(arg.template, PlaceholderValues)
    /\ \A p \in SeqToSet(Placeholders) : ~Contains(res.val, p)

\* C7 as stated, on the names whose month lookup does not raise: for every
\* template with each placeholder once and every metadata set, the result holds
\* no placeholder and each value in its place
C7_Original ==
    (pc = "injected" /\ EveryPlaceholderOnce /\ ~get_date_info(arg.name, now).raised) =>
        FullySubstituted

\* every "<" of the template starts one of the placeholders, and no value holds "<"
NoStrayBracket ==
    /\ Occurrences(arg.template, "<") = Len(Placeholders)
    /\ \A p \in SeqToSet(Placeholders) : ~Contains(PlaceholderValues[p], "<")

\* C7, amended: for a template with each placeholder once, whose every "<"
\* starts a placeholder, and metadata values without "<", the result holds no
\* placeholder and each value where its placeholder stood, whenever
\* get_date_info returns a date; when it raises, so does inject_personal_info.  (The
\* replacements run one after the other over the whole text, so a value that
\* holds a placeholder, or text that joins a value into one, is replaced again.)
C7_SubstitutionComplete ==
    (pc = "injected" /\ EveryPlaceholderOnce) =>
        IF get_date_info(arg.name, now).raised THEN res = None
        ELSE NoStrayBracket => FullySubstituted

\* a dated name, every value plain, and the month name in the result
C7_Witness ==
    /\ pc = "injected"
    /\ EveryPlaceholderOnce
    /\ NoStrayBracket
    /\ FullySubstituted
    /\ Contains(res.val, "March")
    /\ Contains(res.val, "x > y")

====
